---- MODULE Spec2Model ----
(***************************************************************************)
(* Patient / session / account backend (src/main.py, src/schemas.py).      *)
(* Strings are sequences of one-character strings, so that strip, lower,   *)
(* split, slicing and formatting are computed as the code computes them.   *)
(***************************************************************************)
EXTENDS Integers, Sequences, FiniteSets

VARIABLES patient, session, account, nextOid, response, pc, frame, overlapped

vars == <<patient, session, account, nextOid, response, pc, frame, overlapped>>

(* ------------------------------ bounds --------------------------------- *)

\* Documents the store hands an identifier to in one run (all collections).
MaxDocs == 3

\* Length of an identifier's hexadecimal form (24 in the deployed store).
OidLen == 2

\* Concurrent create_patient requests in the interleaved specification.
MaxWorkers == 2

(* ------------------------------ strings -------------------------------- *)

\* Python's None; no string of the model is equal to it.
None == <<"<None>">>

Digits == <<"0", "1", "2", "3", "4", "5", "6", "7", "8", "9">>

UpperChars == <<"A", "B", "C", "D", "E", "F", "G", "H", "I", "J", "K", "L", "M",
                "N", "O", "P", "Q", "R", "S", "T", "U", "V", "W", "X", "Y", "Z">>

LowerChars == <<"a", "b", "c", "d", "e", "f", "g", "h", "i", "j", "k", "l", "m",
                "n", "o", "p", "q", "r", "s", "t", "u", "v", "w", "x", "y", "z">>

\* The position of character c in the sequence of characters chars.
IndexOf(chars) ==
    [c \in {chars[i] : i \in 1..Len(chars)} |-> CHOOSE i \in 1..Len(chars) : chars[i] = c]

DigitIndex == IndexOf(Digits)

UpperIndex == IndexOf(UpperChars)

LowerIndex == IndexOf(LowerChars)

IsDigit(c) == c \in DOMAIN DigitIndex

DigitVal(c) == DigitIndex[c] - 1

LowerChar(c) == IF c \in DOMAIN UpperIndex THEN LowerChars[UpperIndex[c]] ELSE c

UpperChar(c) == IF c \in DOMAIN LowerIndex THEN UpperChars[LowerIndex[c]] ELSE c

\* str.lower()
Lower(s) == [i \in 1..Len(s) |-> LowerChar(s[i])]

\* str.upper()
Upper(s) == [i \in 1..Len(s) |-> UpperChar(s[i])]

RECURSIVE LStrip(_)
LStrip(s) == IF s # <<>> /\ Head(s) = " " THEN LStrip(Tail(s)) ELSE s

RECURSIVE RStrip(_)
RStrip(s) ==
    IF s # <<>> /\ s[Len(s)] = " " THEN RStrip(SubSeq(s, 1, Len(s) - 1)) ELSE s

\* str.strip()
Strip(s) == RStrip(LStrip(s))

\* sep in s
Contains(s, sep) == \E i \in 1..Len(s) : s[i] = sep

\* s.split(sep): the list of the pieces between the separators
RECURSIVE Split(_, _)
Split(s, sep) ==
    IF ~Contains(s, sep)
    THEN <<s>>
    ELSE LET i == CHOOSE k \in 1..Len(s) :
                      s[k] = sep /\ \A j \in 1..(k - 1) : s[j] # sep
         IN  <<SubSeq(s, 1, i - 1)>> \o Split(SubSeq(s, i + 1, Len(s)), sep)

\* s[:1]
FirstChar(s) == SubSeq(s, 1, 1)

\* the decimal value of a string of digits
RECURSIVE ToInt(_)
ToInt(s) ==
    IF s = <<>> THEN 0 ELSE 10 * ToInt(SubSeq(s, 1, Len(s) - 1)) + DigitVal(s[Len(s)])

\* n written with at least w digits, zero-filled on the left
RECURSIVE Pad(_, _)
Pad(n, w) ==
    IF w <= 1 /\ n < 10
    THEN <<Digits[n + 1]>>
    ELSE Pad(n \div 10, w - 1) \o <<Digits[(n % 10) + 1]>>

(* ------------------------------- dates --------------------------------- *)

IsLeap(y) == (y % 4 = 0 /\ y % 100 # 0) \/ y % 400 = 0

DaysInMonth(y, m) ==
    IF m = 2 THEN (IF IsLeap(y) THEN 29 ELSE 28)
    ELSE IF m \in {4, 6, 9, 11} THEN 30 ELSE 31

\* %Y : \d\d\d\d
MatchesYear(s) == Len(s) = 4 /\ \A i \in 1..4 : IsDigit(s[i])

\* %m : 1[0-2]|0[1-9]|[1-9]
MatchesMonth(s) ==
    \/ Len(s) = 2 /\ s[1] = "1" /\ s[2] \in {"0", "1", "2"}
    \/ Len(s) = 2 /\ s[1] = "0" /\ IsDigit(s[2]) /\ s[2] # "0"
    \/ Len(s) = 1 /\ IsDigit(s[1]) /\ s[1] # "0"

\* %d : 3[0-1]|[1-2]\d|0[1-9]|[1-9]| [1-9]
MatchesDay(s) ==
    \/ Len(s) = 2 /\ s[1] = "3" /\ s[2] \in {"0", "1"}
    \/ Len(s) = 2 /\ s[1] \in {"1", "2"} /\ IsDigit(s[2])
    \/ Len(s) = 2 /\ s[1] = "0" /\ IsDigit(s[2]) /\ s[2] # "0"
    \/ Len(s) = 1 /\ IsDigit(s[1]) /\ s[1] # "0"
    \/ Len(s) = 2 /\ s[1] = " " /\ IsDigit(s[2]) /\ s[2] # "0"

\* Whether datetime.strptime(s, "%Y-%m-%d") returns: the whole string matches
\* the pattern and the fields form a date of the calendar (year 1 or later).
StrptimeOk(s) ==
    LET parts == Split(s, "-")
    IN  /\ Len(parts) = 3
        /\ MatchesYear(parts[1])
        /\ MatchesMonth(parts[2])
        /\ MatchesDay(parts[3])
        /\ ToInt(parts[1]) >= 1
        /\ ToInt(LStrip(parts[3])) <= DaysInMonth(ToInt(parts[1]), ToInt(parts[2]))

\* datetime.strptime(s, "%Y-%m-%d").date(), where StrptimeOk(s)
Strptime(s) ==
    LET parts == Split(s, "-")
    IN  [y |-> ToInt(parts[1]), m |-> ToInt(parts[2]), d |-> ToInt(LStrip(parts[3]))]

\* date.isoformat()
IsoFormat(date) == Pad(date.y, 4) \o <<"-">> \o Pad(date.m, 2) \o <<"-">> \o Pad(date.d, 2)


\* The outcome of a handler's date-of-birth normalisation: "ok", "bad_format"
\* (the handler raises HTTPException 400) or "value_error" (a ValueError leaves
\* the handler: sequence unpacking of a split, or strptime).
DobOutcome(status, iso, compact) == [status |-> status, iso |-> iso, compact |-> compact]

\* create_patient, lines 173-189
DobCreate(raw) ==
    LET dob_input == Strip(raw)
    IN  IF Contains(dob_input, "/")
        THEN LET parts == Split(dob_input, "/")
             IN  IF Len(parts) # 3
                 THEN DobOutcome("value_error", <<>>, <<>>)
                 ELSE LET dob_iso == parts[3] \o <<"-">> \o parts[2] \o <<"-">> \o parts[1]
                          dob_compact == parts[1] \o parts[2] \o parts[3]
                      IN  IF StrptimeOk(dob_iso)
                          THEN DobOutcome("ok", dob_iso, dob_compact)
                          ELSE DobOutcome("value_error", <<>>, <<>>)
        ELSE IF Contains(dob_input, "-")
        THEN LET parts == Split(dob_input, "-")
             IN  IF Len(parts) # 3
                 THEN DobOutcome("value_error", <<>>, <<>>)
                 ELSE LET dob_compact == parts[3] \o parts[2] \o parts[1]
                      IN  IF StrptimeOk(dob_input)
                          THEN DobOutcome("ok", dob_input, dob_compact)
                          ELSE DobOutcome("value_error", <<>>, <<>>)
        ELSE DobOutcome("bad_format", <<>>, <<>>)

\* update_patient, lines 224-232, and search_patient, lines 254-263: the same
\* normalisation, without a compact form and without a split of the "-" form
DobUpdate(raw) ==
    LET dob_input == Strip(raw)
    IN  IF Contains(dob_input, "/")
        THEN LET parts == Split(dob_input, "/")
             IN  IF Len(parts) # 3
                 THEN DobOutcome("value_error", <<>>, <<>>)
                 ELSE LET dob_iso == parts[3] \o <<"-">> \o parts[2] \o <<"-">> \o parts[1]
                      IN  IF StrptimeOk(dob_iso)
                          THEN DobOutcome("ok", dob_iso, <<>>)
                          ELSE DobOutcome("value_error", <<>>, <<>>)
        ELSE IF Contains(dob_input, "-")
        THEN IF StrptimeOk(dob_input)
             THEN DobOutcome("ok", dob_input, <<>>)
             ELSE DobOutcome("value_error", <<>>, <<>>)
        ELSE DobOutcome("bad_format", <<>>, <<>>)

\* reset_default_password, lines 318-326: the compact form alone; the string
\* is never parsed as a date
DobReset(raw) ==
    LET dob_input == Strip(raw)
    IN  IF Contains(dob_input, "/")
        THEN LET parts == Split(dob_input, "/")
             IN  IF Len(parts) # 3
                 THEN DobOutcome("value_error", <<>>, <<>>)
                 ELSE DobOutcome("ok", <<>>, parts[1] \o parts[2] \o parts[3])
        ELSE IF Contains(dob_input, "-")
        THEN LET parts == Split(dob_input, "-")
             IN  IF Len(parts) # 3
                 THEN DobOutcome("value_error", <<>>, <<>>)
                 ELSE DobOutcome("ok", <<>>, parts[3] \o parts[2] \o parts[1])
        ELSE DobOutcome("bad_format", <<>>, <<>>)

(* ---------------------------- credentials ------------------------------ *)

generate_username(first_name, last_name) ==
    Lower(FirstChar(first_name)) \o <<".">> \o Lower(last_name)

format_default_password(last_name, dob_str) == Lower(last_name) \o dob_str

\* The digest of a plaintext is written "#" followed by the plaintext: a
\* deterministic, collision-free digest. "#" occurs in no input string.
sha256_hash(plain) == <<"#">> \o plain

(* ----------------------------- identifiers ----------------------------- *)

HexChars == Digits \o <<"a", "b", "c", "d", "e", "f">>

HexIndex == IndexOf(HexChars)

IsHexChar(c) == LowerChar(c) \in DOMAIN HexIndex

HexVal(c) == HexIndex[LowerChar(c)] - 1

\* The n-th identifier the store generates, as its sequence of hex digits' values.
GenOid(n) == [i \in 1..OidLen |-> IF i < OidLen THEN 10 ELSE n]

\* str(ObjectId): lowercase hexadecimal
OidStr(oid) == [i \in 1..Len(oid) |-> HexChars[oid[i] + 1]]

\* ObjectId.is_valid(v): a hexadecimal string of the identifier's length, in
\* either letter case
IsValidOid(v) == Len(v) = OidLen /\ \A i \in 1..Len(v) : IsHexChar(v[i])

\* ObjectId(v), where IsValidOid(v)
ParseOid(v) == [i \in 1..Len(v) |-> HexVal(v[i])]

\* PyObjectId.validate(v) raises ValueError
ValidateRaises(v) == ~IsValidOid(v)

(* ------------------------------- store --------------------------------- *)

\* A collection is the sequence of its documents in insertion order.
\* find_one, update_one, delete_one: the first of the indexes of the matching
\* documents, or 0 when none matches.
FirstIndex(matching) ==
    IF matching = {} THEN 0 ELSE CHOOSE i \in matching : \A j \in matching : i <= j

\* col without its i-th document
RemoveAt(col, i) == SubSeq(col, 1, i - 1) \o SubSeq(col, i + 1, Len(col))

\* $set: doc with the fields of update replaced
SetFields(doc, update) ==
    [k \in DOMAIN doc |-> IF k \in DOMAIN update THEN update[k] ELSE doc[k]]

DateFields == {"date_of_birth", "date"}

to_dict(doc) ==
    [k \in (DOMAIN doc \ {"_id"}) \cup {"id"} |->
        IF k = "id" THEN OidStr(doc._id)
        ELSE IF k \in DateFields THEN IsoFormat(doc[k])
        ELSE doc[k]]

\* A pop that removes nothing.
PopNothing(d, key) == d

\* dict.pop(key, None) on a response body
Pop(d, key) == [k \in DOMAIN d \ {key} |-> d[k]]


(* ------------------------------ responses ------------------------------ *)

\* A response names the route that gave it (op).
\* A handler that returns: 200 and the returned body.
Ok(op, body) == [op |-> op, status |-> 200, error |-> "none", body |-> body]

\* raise HTTPException(code, detail): answered by the framework with that code.
HttpError(op, code, detail) ==
    [op |-> op, status |-> code, error |-> "HTTPException", body |-> [detail |-> detail]]

\* An exception other than HTTPException leaving a handler: nothing in
\* src/main.py catches it, and the client gets the server's internal error.
Unhandled(op, exc) ==
    [op |-> op, status |-> 500, error |-> exc, body |-> [detail |-> "Internal Server Error"]]

DobDetail == "date_of_birth must be DD/MM/YYYY or YYYY-MM-DD"

StatusOk == <<"o", "k">>

StatusDeleted == <<"d", "e", "l", "e", "t", "e", "d">>

RolePatient == <<"p", "a", "t", "i", "e", "n", "t">>

Pending == <<"p", "e", "n", "d", "i", "n", "g">>

Paid == <<"p", "a", "i", "d">>

Waived == <<"w", "a", "i", "v", "e", "d">>

(* ------------------------------- inputs -------------------------------- *)

FirstNames == {<<"J", "o">>, <<"A", "l">>}

LastNames == {<<"D", "o">>, <<" ", "D", "o">>}

Emails == {None}

Dob_15_02_2020 == <<"1", "5", "/", "0", "2", "/", "2", "0", "2", "0">>

Dob_5_3_2020 == <<"5", "/", "3", "/", "2", "0", "2", "0">>

Dob_2020_03_05 == <<"2", "0", "2", "0", "-", "0", "3", "-", "0", "5">>

Dob_31_02_2020 == <<"3", "1", "/", "0", "2", "/", "2", "0", "2", "0">>

Dob_2020dot02dot15 == <<"2", "0", "2", "0", ".", "0", "2", ".", "1", "5">>

Dob_15_02 == <<"1", "5", "/", "0", "2">>

DobInputs ==
    {Dob_15_02_2020, Dob_5_3_2020, Dob_2020_03_05,
     Dob_31_02_2020, Dob_2020dot02dot15, Dob_15_02}

\* PatientCreate bodies (the fields no handler reads or derives from are left out:
\* phone, parent_contact, address, notes, tags)
CreatePayloads ==
    [first_name : FirstNames, last_name : LastNames,
     date_of_birth : DobInputs, email : Emails]

\* PatientUpdate bodies: one field given, the others None
UpdatePayloads ==
    {[first_name |-> f, last_name |-> None, date_of_birth |-> None, email |-> None] :
        f \in FirstNames}
    \cup {[first_name |-> None, last_name |-> l, date_of_birth |-> None, email |-> None] :
        l \in LastNames}
    \cup {[first_name |-> None, last_name |-> None, date_of_birth |-> d, email |-> None] :
        d \in DobInputs}

\* ResetPasswordRequest bodies
ResetPayloads == [last_name : LastNames, date_of_birth : DobInputs]

\* Identifier strings of requests: the first and the third identifier the store
\* generates, the first also in upper case, and a string that is no identifier
MalformedIds == {<<"z", "z">>}

CanonicalIds == {OidStr(GenOid(1)), OidStr(GenOid(3))}

IdInputs == CanonicalIds \cup {Upper(OidStr(GenOid(1)))} \cup MalformedIds

(* ------------------------------ documents ------------------------------ *)

\* PatientSchema(...), lines 186-196, as the stored document
PatientDoc(oid, payload, dob_iso) ==
    [_id |-> oid,
     first_name |-> Strip(payload.first_name),
     last_name |-> Strip(payload.last_name),
     date_of_birth |-> Strptime(dob_iso),
     email |-> payload.email]

\* AccountSchema(...), lines 206-214, as the stored document
AccountDoc(oid, p, pid, username, dob_compact) ==
    [_id |-> oid,
     username |-> username,
     password_hash |-> sha256_hash(format_default_password(p.last_name, dob_compact)),
     role |-> RolePatient,
     patient_id |-> pid,
     name |-> p.first_name \o <<" ">> \o p.last_name,
     email |-> p.email]

\* The lookup made on the display name instead of the username.
ExistingAccountByName(col, username) == 
    FirstIndex({k \in 1..Len(col) : col[k].name = username})

\* acc_col.find_one({"username": username}): the index of the first account
\* with that username, or 0 (None)
ExistingAccount(col, username) == 
    FirstIndex({k \in 1..Len(col) : col[k].username = username})

\* create_document(collection, model): the document is appended under a fresh
\* identifier, whose string form is returned
create_document(col, doc) == Append(col, doc)

Idle == /\ \A w \in 1..MaxWorkers : pc[w] = "idle"
        /\ UNCHANGED <<pc, frame, overlapped>>

(* ------------------------------ patients ------------------------------- *)

get_patient(patient_id) ==
    /\ Idle
    /\ UNCHANGED <<patient, session, account, nextOid>>
    /\ IF ValidateRaises(patient_id)
       THEN response' = Unhandled("get_patient", "ValueError")
       ELSE LET i == FirstIndex({k \in 1..Len(patient) :
                                        patient[k]._id = ParseOid(patient_id)})
            IN  IF i = 0
                THEN response' = HttpError("get_patient", 404, "Patient not found")
                ELSE response' = Ok("get_patient", to_dict(patient[i]))

create_patient(payload) ==
    LET dob == DobCreate(payload.date_of_birth)
    IN  /\ Idle
        /\ UNCHANGED session
        /\ IF dob.status = "bad_format"
           THEN /\ response' = HttpError("create_patient", 400, DobDetail)
                /\ UNCHANGED <<patient, account, nextOid>>
           ELSE IF dob.status = "value_error"
           THEN /\ response' = Unhandled("create_patient", "ValueError")
                /\ UNCHANGED <<patient, account, nextOid>>
           ELSE LET p == PatientDoc(GenOid(nextOid), payload, dob.iso)
                    pid == OidStr(p._id)
                    username == generate_username(p.first_name, p.last_name)
                    existing == ExistingAccount(account, username)
                IN  /\ nextOid + (IF existing = 0 THEN 1 ELSE 0) <= MaxDocs
                    /\ patient' = create_document(patient, p)
                    /\ IF existing = 0
                       THEN /\ account' = create_document(account,
                                   AccountDoc(GenOid(nextOid + 1), p, pid, username, dob.compact))
                            /\ nextOid' = nextOid + 2
                       ELSE /\ UNCHANGED account
                            /\ nextOid' = nextOid + 1
                    /\ response' = Ok("create_patient", [id |-> pid, username |-> username])

\* payload.model_dump(exclude_none=True), with date_of_birth parsed (line 232)
UpdateDict(payload) ==
    LET keys == {k \in DOMAIN payload : payload[k] # None}
    IN  [k \in keys |->
            IF k = "date_of_birth"
            THEN Strptime(DobUpdate(payload[k]).iso)
            ELSE payload[k]]

update_patient(patient_id, payload) ==
    LET dobGiven == payload.date_of_birth # None
        dob == IF dobGiven THEN DobUpdate(payload.date_of_birth)
               ELSE DobOutcome("ok", <<>>, <<>>)
    IN  /\ Idle
        /\ UNCHANGED <<session, account, nextOid>>
        /\ IF dob.status = "bad_format"
           THEN /\ response' = HttpError("update_patient", 400, DobDetail)
                /\ UNCHANGED patient
           ELSE IF dob.status = "value_error" \/ ValidateRaises(patient_id)
           THEN /\ response' = Unhandled("update_patient", "ValueError")
                /\ UNCHANGED patient
           ELSE LET i == FirstIndex({k \in 1..Len(patient) :
                                        patient[k]._id = ParseOid(patient_id)})
                IN  IF i = 0
                    THEN /\ response' = HttpError("update_patient", 404, "Patient not found")
                         /\ UNCHANGED patient
                    ELSE /\ patient' = [patient EXCEPT ![i] = SetFields(@, UpdateDict(payload))]
                         /\ response' = Ok("update_patient", to_dict(patient'[i]))

delete_patient(patient_id) ==
    /\ Idle
    /\ UNCHANGED <<account, nextOid>>
    /\ IF ValidateRaises(patient_id)
       THEN /\ response' = Unhandled("delete_patient", "ValueError")
            /\ UNCHANGED <<patient, session>>
       ELSE LET i == FirstIndex({k \in 1..Len(patient) :
                                        patient[k]._id = ParseOid(patient_id)})
            IN  IF i = 0
                THEN /\ response' = HttpError("delete_patient", 404, "Patient not found")
                     /\ UNCHANGED <<patient, session>>
                ELSE /\ patient' = RemoveAt(patient, i)
                     /\ session' = SelectSeq(session, LAMBDA s : s.patient_id # patient_id)
                     /\ response' = Ok("delete_patient", [status |-> StatusDeleted])

\* {"last_name": {"$regex": "^last_name$", "$options": "i"}, "date_of_birth": dob}
\* (the names of the model hold no character that is special in a pattern)
search_patient(last_name, date_of_birth) ==
    LET dob == DobUpdate(date_of_birth)
    IN  /\ Idle
        /\ UNCHANGED <<patient, session, account, nextOid>>
        /\ IF dob.status = "bad_format"
           THEN response' = HttpError("search_patient", 400, DobDetail)
           ELSE IF dob.status = "value_error"
           THEN response' = Unhandled("search_patient", "ValueError")
           ELSE LET i == FirstIndex({k \in 1..Len(patient) :
                             /\ Lower(patient[k].last_name) = Lower(last_name)
                             /\ patient[k].date_of_birth = Strptime(dob.iso)})
                IN  IF i = 0
                    THEN response' = HttpError("search_patient", 404, "Patient not found")
                    ELSE response' = Ok("search_patient", to_dict(patient[i]))


(* ------------------------------ sessions ------------------------------- *)

\* Session.duration_min: Field(..., ge=10, le=180)
MinDuration == 10

MaxDuration == 180

\* Session.amount: Field(None, ge=0)
MinAmount == 0

Date_2024_01_02 == <<"2", "0", "2", "4", "-", "0", "1", "-", "0", "2">>

Date_02_01_2024 == <<"0", "2", "/", "0", "1", "/", "2", "0", "2", "4">>

Unlisted == <<"f", "o", "o">>

\* An Optional[float] is the empty set (None) or the set of its one number.
NoAmount == {}

BaseSession ==
    [patient_id |-> OidStr(GenOid(1)), date |-> Date_2024_01_02, duration_min |-> MinDuration,
     payment_status |-> None, amount |-> NoAmount]

\* SessionCreate bodies (focus and notes, which are stored as given, left out):
\* the base body with one field varied
SessionPayloads ==
    {[BaseSession EXCEPT !.patient_id = i] : i \in CanonicalIds \cup {Upper(OidStr(GenOid(1)))}}
    \cup {[BaseSession EXCEPT !.date = Date_02_01_2024]}
    \cup {[BaseSession EXCEPT !.duration_min = d] :
            d \in {MinDuration - 1, MaxDuration, MaxDuration + 1}}
    \cup {[BaseSession EXCEPT !.payment_status = s] : s \in {<<>>, Paid, Unlisted}}
    \cup {[BaseSession EXCEPT !.amount = {a}] : a \in {MinAmount - 1, MinAmount}}

\* Whether SessionSchema(...) raises a ValidationError: the constraints of
\* src/schemas.py on the fields (payment_status carries none)
SessionInvalid(duration_min, amount) ==
    \/ duration_min < MinDuration
    \/ duration_min > MaxDuration
    \/ \E a \in amount : a < MinAmount

\* payload.payment_status or "pending"
StatusOrPending(payment_status) ==
    IF payment_status = None \/ payment_status = <<>> THEN Pending ELSE payment_status

\* SessionSchema(...), lines 285-293, as the stored document
SessionDoc(oid, payload) ==
    [_id |-> oid,
     patient_id |-> payload.patient_id,
     date |-> Strptime(payload.date),
     duration_min |-> payload.duration_min,
     payment_status |-> StatusOrPending(payload.payment_status),
     amount |-> payload.amount]

create_session(payload) ==
    /\ Idle
    /\ UNCHANGED <<patient, account>>
    /\ IF ~StrptimeOk(payload.date)
       THEN /\ response' = HttpError("create_session", 400, "date must be YYYY-MM-DD")
            /\ UNCHANGED <<session, nextOid>>
       ELSE IF SessionInvalid(payload.duration_min, payload.amount)
       THEN /\ response' = Unhandled("create_session", "ValidationError")
            /\ UNCHANGED <<session, nextOid>>
       ELSE /\ nextOid <= MaxDocs
            /\ session' = create_document(session, SessionDoc(GenOid(nextOid), payload))
            /\ nextOid' = nextOid + 1
            /\ response' = Ok("create_session", [id |-> OidStr(GenOid(nextOid))])

(* ------------------------------ accounts ------------------------------- *)

get_account_by_patient(patient_id) ==
    /\ Idle
    /\ UNCHANGED <<patient, session, account, nextOid>>
    /\ LET i == FirstIndex({k \in 1..Len(account) :
                                        account[k].patient_id = patient_id})
       IN  IF i = 0
           THEN response' = HttpError("get_account_by_patient", 404, "Account not found")
           ELSE response' = Ok("get_account_by_patient",
                               Pop(to_dict(account[i]), "password_hash"))

\* lines 328-329: the hash reset_default_password stores, where the
\* normalisation of the date returned
ResetHash(payload) ==
    sha256_hash(format_default_password(payload.last_name,
                                        DobReset(payload.date_of_birth).compact))

reset_default_password(patient_id, payload) ==
    LET dob == DobReset(payload.date_of_birth)
    IN  /\ Idle
        /\ UNCHANGED <<patient, session, nextOid>>
        /\ IF dob.status = "bad_format"
           THEN /\ response' = HttpError("reset_default_password", 400, DobDetail)
                /\ UNCHANGED account
           ELSE IF dob.status = "value_error"
           THEN /\ response' = Unhandled("reset_default_password", "ValueError")
                /\ UNCHANGED account
           ELSE LET i == FirstIndex({k \in 1..Len(account) :
                                        account[k].patient_id = patient_id})
                IN  IF i = 0
                    THEN /\ response' = HttpError("reset_default_password", 404,
                                                  "Account not found")
                         /\ UNCHANGED account
                    ELSE /\ account' = [account EXCEPT ![i] =
                                SetFields(@, [password_hash |-> ResetHash(payload)])]
                         /\ response' = Ok("reset_default_password", [status |-> StatusOk])

(* --------------------------- specification ----------------------------- *)

\* The locals of a create_patient request that has not inserted its patient.
NoFrame == [p |-> None, dob_compact |-> None, pid |-> None, username |-> None, existing |-> 0]

NoMessage == [op |-> "none", status |-> 0, error |-> "none", body |-> [detail |-> "none"]]

Init ==
    /\ patient = <<>>
    /\ session = <<>>
    /\ account = <<>>
    /\ nextOid = 1
    /\ response = NoMessage
    /\ pc = [w \in 1..MaxWorkers |-> "idle"]
    /\ frame = [w \in 1..MaxWorkers |-> NoFrame]
    /\ overlapped = FALSE

GetPatient == \E i \in IdInputs : get_patient(i)

CreatePatient == \E payload \in CreatePayloads : create_patient(payload)

UpdatePatient == \E i \in IdInputs, payload \in UpdatePayloads : update_patient(i, payload)

DeletePatient == \E i \in IdInputs : delete_patient(i)

SearchPatient == \E l \in LastNames, d \in DobInputs : search_patient(l, d)

CreateSession == \E payload \in SessionPayloads : create_session(payload)

GetAccountByPatient == \E i \in IdInputs : get_account_by_patient(i)

ResetDefaultPassword ==
    \E i \in IdInputs, payload \in ResetPayloads : reset_default_password(i, payload)

\* Requests handled one at a time, each handler run to completion.
Next ==
    \/ GetPatient
    \/ CreatePatient
    \/ UpdatePatient
    \/ DeletePatient
    \/ SearchPatient
    \/ CreateSession
    \/ GetAccountByPatient
    \/ ResetDefaultPassword

Spec == Init /\ [][Next]_vars


\* The routes of a resource, one request at a time: the handlers that write or
\* read the account collection,
NextAccounts ==
    \/ CreatePatient
    \/ DeletePatient
    \/ GetAccountByPatient
    \/ ResetDefaultPassword

SpecAccounts == Init /\ [][NextAccounts]_vars

\* the routes under /api/patients,
NextPatients ==
    \/ GetPatient
    \/ CreatePatient
    \/ UpdatePatient
    \/ DeletePatient
    \/ SearchPatient

SpecPatients == Init /\ [][NextPatients]_vars

\* the handlers that write the session collection, with the creation of the
\* patients the sessions are of,
NextSessions ==
    \/ CreatePatient
    \/ CreateSession
    \/ DeletePatient

SpecSessions == Init /\ [][NextSessions]_vars

\* the handlers that take a date of birth,
NextDates ==
    \/ CreatePatient
    \/ UpdatePatient
    \/ SearchPatient
    \/ ResetDefaultPassword

SpecDates == Init /\ [][NextDates]_vars

\* the handlers that write to the store.
NextWrites ==
    \/ CreatePatient
    \/ UpdatePatient
    \/ DeletePatient
    \/ CreateSession
    \/ ResetDefaultPassword

SpecWrites == Init /\ [][NextWrites]_vars

(* ------------------- create_patient, store call by store call ----------- *)

\* No transaction spans the store calls of create_patient (lines 199, 204 and
\* 215): requests in flight at once interleave between them. Each worker
\* handles one request; pc is the store call it makes next.

Workers == 1..MaxWorkers

InFlight(w) == pc[w] \in {"find", "insert"}

ConcPayloads ==
    {payload \in CreatePayloads :
        /\ payload.last_name = <<"D", "o">>
        /\ payload.date_of_birth \in {Dob_15_02_2020, Dob_2020dot02dot15}}

\* lines 173-199: normalise, build the patient, insert it
cp_insert_patient(w, payload) ==
    LET dob == DobCreate(payload.date_of_birth)
    IN  /\ pc[w] = "idle"
        /\ UNCHANGED <<session, account>>
        /\ IF dob.status # "ok"
           THEN /\ response' = (IF dob.status = "bad_format"
                                THEN HttpError("create_patient", 400, DobDetail)
                                ELSE Unhandled("create_patient", "ValueError"))
                /\ pc' = [pc EXCEPT ![w] = "done"]
                /\ UNCHANGED <<patient, nextOid, frame, overlapped>>
           ELSE LET p == PatientDoc(GenOid(nextOid), payload, dob.iso)
                IN  /\ patient' = create_document(patient, p)
                    /\ nextOid' = nextOid + 1
                    /\ frame' = [frame EXCEPT ![w] =
                                    [p |-> p, dob_compact |-> dob.compact, pid |-> OidStr(p._id),
                                     username |-> generate_username(p.first_name, p.last_name),
                                     existing |-> 0]]
                    /\ pc' = [pc EXCEPT ![w] = "find"]
                    /\ overlapped' = (overlapped \/ \E v \in Workers \ {w} : InFlight(v))
                    /\ UNCHANGED response

\* lines 202-205, and line 217 when an account is found
cp_find_account(w) ==
    LET existing == ExistingAccount(account, frame[w].username)
    IN  /\ pc[w] = "find"
        /\ frame' = [frame EXCEPT ![w].existing = existing]
        /\ UNCHANGED <<patient, session, account, nextOid, overlapped>>
        /\ IF existing = 0
           THEN /\ pc' = [pc EXCEPT ![w] = "insert"]
                /\ UNCHANGED response
           ELSE /\ pc' = [pc EXCEPT ![w] = "done"]
                /\ response' = Ok("create_patient",
                                   [id |-> frame[w].pid, username |-> frame[w].username])

\* lines 206-217
cp_insert_account(w) ==
    /\ pc[w] = "insert"
    /\ account' = create_document(account,
                      AccountDoc(GenOid(nextOid), frame[w].p, frame[w].pid,
                                 frame[w].username, frame[w].dob_compact))
    /\ nextOid' = nextOid + 1
    /\ pc' = [pc EXCEPT ![w] = "done"]
    /\ response' = Ok("create_patient", [id |-> frame[w].pid, username |-> frame[w].username])
    /\ UNCHANGED <<patient, session, frame, overlapped>>

CpInsertPatient == \E w \in Workers, payload \in ConcPayloads : cp_insert_patient(w, payload)

CpFindAccount == \E w \in Workers : cp_find_account(w)

CpInsertAccount == \E w \in Workers : cp_insert_account(w)

NextConc ==
    \/ CpInsertPatient
    \/ CpFindAccount
    \/ CpInsertAccount

SpecConc == Init /\ [][NextConc]_vars


(* ------------------------------- claims -------------------------------- *)

\* The glossary's compact date of birth: the 8 digits DDMMYYYY of a calendar date.
CompactDDMMYYYY(date) == Pad(date.d, 2) \o Pad(date.m, 2) \o Pad(date.y, 4)

\* col2 is col1 with one document appended.
OneAppended(col1, col2) == Len(col2) = Len(col1) + 1 /\ SubSeq(col2, 1, Len(col1)) = col1

Last(col) == col[Len(col)]

\* What C1 says of a create_patient step: one patient is inserted; no account is
\* inserted if one with the derived username existed, and otherwise exactly one,
\* with role "patient", linked to the new patient, holding the hash of the
\* patient's lowercase last name followed by the compact DDMMYYYY date of birth.
C1_Post ==
    LET p == Last(patient')
        username == Lower(FirstChar(p.first_name)) \o <<".">> \o Lower(p.last_name)
        existed == \E i \in 1..Len(account) : account[i].username = username
    IN  /\ OneAppended(patient, patient')
        /\ IF existed
           THEN account' = account
           ELSE /\ OneAppended(account, account')
                /\ Last(account').role = RolePatient
                /\ Last(account').patient_id = OidStr(p._id)
                /\ Last(account').password_hash =
                       sha256_hash(format_default_password(
                           p.last_name, CompactDDMMYYYY(p.date_of_birth)))

\* C1: every create_patient request with a valid date of birth, run with no other
\* request interleaved, inserts exactly one patient, and exactly one account if no
\* account with the derived username existed (none if one did); the inserted
\* account has role "patient", the new patient's identifier, and password_hash =
\* hashPassword(deriveDefaultPassword(last name, compact DDMMYYYY date of birth)).
C1_CreatePatientAccount ==
    [][\A payload \in CreatePayloads :
          (DobCreate(payload.date_of_birth).status = "ok" /\ create_patient(payload))
              => C1_Post]_vars

\* The patient a delete_patient step removed.
Removed == CHOOSE p \in {patient[i] : i \in 1..Len(patient)} :
               \A j \in 1..Len(patient') : patient'[j] # p

\* What C2 says of a delete_patient step that completed successfully: the store
\* holds no session whose patient_id is the deleted patient's identifier, and
\* the sessions of every other patient are unchanged.
Cascaded ==
    LET pid == OidStr(Removed._id)
    IN  /\ \A k \in 1..Len(session') : session'[k].patient_id # pid
        /\ SelectSeq(session', LAMBDA x : x.patient_id # pid)
             = SelectSeq(session, LAMBDA x : x.patient_id # pid)

\* Identifier string i is the identifier of no stored patient.
MatchesNoPatient(i) == \A k \in 1..Len(patient) : OidStr(patient[k]._id) # i

\* C2: after delete_patient completes successfully for an existing patient, the
\* store holds no session whose patient_id is that patient's identifier and the
\* sessions of every other patient are unchanged; delete_patient on an
\* identifier that matches no patient fails with NotFound and deletes no patient
\* and no session.
C2_DeleteCascade ==
    [][\A i \in IdInputs :
          delete_patient(i) =>
              /\ response'.status = 200 => Cascaded
              /\ MatchesNoPatient(i) =>
                    /\ response'.status = 404
                    /\ patient' = patient
                    /\ session' = session]_vars

\* The first clause of C2 alone: a delete that succeeded was given a string the
\* store reads as an identifier, in either letter case.
CascadeOfWellFormedIds ==
    [][\A i \in IdInputs :
          (delete_patient(i) /\ response'.status = 200) => Cascaded]_vars

\* C3: in every reachable state every account with role "patient" and a patient_id
\* references a patient that is in the store, and every patient has at most one
\* account whose patient_id is the patient's identifier.
C3_AccountsReferencePatients ==
    /\ \A i \in 1..Len(account) :
          (account[i].role = RolePatient /\ account[i].patient_id # None) =>
              \E k \in 1..Len(patient) : OidStr(patient[k]._id) = account[i].patient_id
    /\ \A k \in 1..Len(patient) :
          Cardinality({i \in 1..Len(account) :
                          account[i].patient_id = OidStr(patient[k]._id)}) <= 1

\* C4: whenever create_patient has normalised a DD/MM/YYYY or YYYY-MM-DD string,
\* every string of the other form that it accepts as the same calendar day
\* (leading zeros written or not) yields the same calendar date and the same
\* compact string.
C4_SameDaySameCompact ==
    [][\A payload \in CreatePayloads :
          (DobCreate(payload.date_of_birth).status = "ok" /\ create_patient(payload)) =>
              \A other \in DobInputs :
                  (/\ DobCreate(other).status = "ok"
                   /\ Contains(other, "/") # Contains(payload.date_of_birth, "/")
                   /\ Strptime(DobCreate(other).iso) = Last(patient').date_of_birth)
                  => /\ Strptime(DobCreate(other).iso)
                          = Strptime(DobCreate(payload.date_of_birth).iso)
                     /\ DobCreate(other).compact
                          = DobCreate(payload.date_of_birth).compact]_vars


\* A string of decimal digits, at least one.
AllDigits(s) == s # <<>> /\ \A i \in 1..Len(s) : IsDigit(s[i])

\* day, month and year, written in digits, form a date of the calendar.
RealDate(dd, mm, yyyy) ==
    /\ AllDigits(dd) /\ AllDigits(mm) /\ AllDigits(yyyy)
    /\ ToInt(yyyy) >= 1
    /\ ToInt(mm) \in 1..12
    /\ ToInt(dd) \in 1..DaysInMonth(ToInt(yyyy), ToInt(mm))

\* raw is a real calendar date written as DD/MM/YYYY or as YYYY-MM-DD.
IsCalendarDate(raw) ==
    \/ LET parts == Split(raw, "/")
       IN  Len(parts) = 3 /\ RealDate(parts[1], parts[2], parts[3])
    \/ LET parts == Split(raw, "-")
       IN  Len(parts) = 3 /\ RealDate(parts[3], parts[2], parts[1])

\* The request failed with a client-visible InvalidFormat or InvalidDate error
\* and left the patient and account collections as they were.
RejectedAsClientError ==
    /\ response'.error = "HTTPException"
    /\ response'.status = 400
    /\ patient' = patient
    /\ account' = account

\* C5: create_patient, update_patient, search_patient and reset_default_password,
\* given a date of birth that is no real calendar date written as DD/MM/YYYY or
\* YYYY-MM-DD, fail with a client-visible InvalidFormat or InvalidDate error,
\* never with an unhandled failure and never with success, and leave the patient
\* and account collections unchanged.
C5_BadDateRejected ==
    [][\A d \in {x \in DobInputs : ~IsCalendarDate(x)} :
          /\ \A payload \in CreatePayloads :
                (payload.date_of_birth = d /\ create_patient(payload))
                    => RejectedAsClientError
          /\ \A i \in IdInputs, payload \in UpdatePayloads :
                (payload.date_of_birth = d /\ update_patient(i, payload))
                    => RejectedAsClientError
          /\ \A l \in LastNames : search_patient(l, d) => RejectedAsClientError
          /\ \A i \in IdInputs, payload \in ResetPayloads :
                (payload.date_of_birth = d /\ reset_default_password(i, payload))
                    => RejectedAsClientError]_vars

\* Identifier string i identifies a stored patient.
IdentifiesPatient(i) ==
    \E k \in 1..Len(patient) : IsValidOid(i) /\ ParseOid(i) = patient[k]._id

\* The request failed with a NotFound error and left the store as it was.
RejectedAsNotFound ==
    /\ response'.error = "HTTPException"
    /\ response'.status = 404
    /\ <<patient', session', account'>> = <<patient, session, account>>

\* C6: get_patient, update_patient and delete_patient, given an identifier string
\* that identifies no stored patient (well-formed or not), answer with a NotFound
\* error, not an unhandled exception, and leave the store unchanged. (The update
\* bodies are those whose date of birth, if given, is accepted.)
C6_UnknownIdNotFound ==
    [][\A i \in {x \in IdInputs : ~IdentifiesPatient(x)} :
          /\ get_patient(i) => RejectedAsNotFound
          /\ delete_patient(i) => RejectedAsNotFound
          /\ \A payload \in UpdatePayloads :
                (/\ payload.date_of_birth # None => IsCalendarDate(payload.date_of_birth)
                 /\ update_patient(i, payload))
                    => RejectedAsNotFound]_vars

\* duration_min in [10,180], payment_status in {pending, paid, waived}, amount
\* absent or non-negative.
SessionFieldsValid(duration_min, payment_status, amount) ==
    /\ duration_min \in 10..180
    /\ payment_status \in {Pending, Paid, Waived}
    /\ \A a \in amount : a >= 0

\* C7: after every create_session call, accepted or rejected, every stored
\* session has duration_min in [10,180], payment_status in {pending, paid,
\* waived} and amount absent or non-negative; a request violating any of these
\* stores no session. (A request that gives no payment_status asks for pending.)
C7_StoredSessionsValid ==
    [][\A payload \in SessionPayloads :
          create_session(payload) =>
              /\ \A k \in 1..Len(session') :
                    SessionFieldsValid(session'[k].duration_min,
                                       session'[k].payment_status, session'[k].amount)
              /\ ~SessionFieldsValid(payload.duration_min,
                                     IF payload.payment_status \in {None, <<>>}
                                     THEN Pending ELSE payload.payment_status,
                                     payload.amount)
                    => session' = session]_vars

\* C8: no response contains a password_hash field, nor the password hash of any
\* stored account as the value of a field; an error response carries its detail
\* alone.
C8_NoHashInResponse ==
    IF response.status = 200
    THEN /\ "password_hash" \notin DOMAIN response.body
         /\ \A k \in DOMAIN response.body, i \in 1..Len(account) :
               response.body[k] # account[i].password_hash
    ELSE DOMAIN response.body = {"detail"}

\* get_account_by_patient has returned the data of a stored account, which
\* holds a password hash.
C8_AccountReturned ==
    /\ response.op = "get_account_by_patient"
    /\ response.status = 200
    /\ \E i \in 1..Len(account) :
          /\ account[i].username = response.body.username
          /\ account[i].patient_id = response.body.patient_id
          /\ Head(account[i].password_hash) = "#"

NoDuplicateUsernames ==
    \A i, j \in 1..Len(account) : account[i].username = account[j].username => i = j

\* C9: two create_patient requests with the same derived username that both ran
\* the find-existing-account query before either inserted (both found nothing)
\* both insert an account, each linked to its own patient; and while requests
\* have run one at a time, no two accounts share a username.
C9_CheckThenAct ==
    /\ \A w1, w2 \in Workers :
          (/\ w1 # w2
           /\ pc[w1] = "done" /\ pc[w2] = "done"
           /\ frame[w1].username # None
           /\ frame[w1].username = frame[w2].username
           /\ frame[w1].existing = 0 /\ frame[w2].existing = 0)
          => \E i, j \in 1..Len(account) :
                /\ i # j
                /\ account[i].username = frame[w1].username
                /\ account[j].username = frame[w1].username
                /\ account[i].patient_id = frame[w1].pid
                /\ account[j].patient_id = frame[w2].pid
    /\ ~overlapped => NoDuplicateUsernames

\* Two interleaved requests are done and two accounts have the same username.
C9_DuplicateReached ==
    /\ overlapped
    /\ \A w \in {1, 2} : pc[w] = "done" /\ frame[w].username # None /\ frame[w].existing = 0
    /\ ~NoDuplicateUsernames

\* C10: if create_patient auto-created an account, a reset_default_password with
\* the same last name string and any accepted date string for the same calendar
\* day stores exactly the hash stored at creation; a reset changes no other field
\* of the account and no other account; on a patient_id with no linked account
\* it fails with NotFound and changes nothing. (Second part: requests whose date
\* is a calendar date.)
C10_ResetRestoresCreationHash ==
    [][/\ \A c \in CreatePayloads :
             (create_patient(c) /\ response'.status = 200 /\ OneAppended(account, account'))
                 => \A r \in ResetPayloads :
                        (/\ r.last_name = c.last_name
                         /\ DobReset(r.date_of_birth).status = "ok"
                         /\ DobCreate(r.date_of_birth).status = "ok"
                         /\ Strptime(DobCreate(r.date_of_birth).iso)
                              = Last(patient').date_of_birth)
                        => ResetHash(r) = Last(account').password_hash
       /\ \A i \in IdInputs, r \in ResetPayloads :
             (IsCalendarDate(r.date_of_birth) /\ reset_default_password(i, r))
                 => IF \A k \in 1..Len(account) : account[k].patient_id # i
                    THEN response'.status = 404 /\ account' = account
                    ELSE /\ Len(account') = Len(account)
                         /\ Cardinality({k \in 1..Len(account) : account'[k] # account[k]}) <= 1
                         /\ \A k \in 1..Len(account) :
                               Pop(account'[k], "password_hash")
                                 = Pop(account[k], "password_hash")]_vars

====
